---------------------------- MODULE Spec2Model ----------------------------
(***************************************************************************)
(* The SuperStore dashboard of src/app.py as a state machine.              *)
(*                                                                         *)
(* The script is a Streamlit page: every user interaction (a sidebar       *)
(* widget changed, a KPI button clicked) re-runs the whole script from top *)
(* to bottom.  One action of the model is one interaction together with    *)
(* the complete re-run it triggers.  The state is what survives a run or   *)
(* is shown by it: the loaded table, the widget values, the session state  *)
(* and everything the run computed and rendered.                           *)
(*                                                                         *)
(* Data representation.  A data frame is a sequence of rows; a row is a    *)
(* function from the column names of the workbook to values.  Order Date,  *)
(* City and Product Name are naturals (a calendar day, and the rank of the *)
(* name in lexicographic order, which is the order groupby emits groups    *)
(* in).  Sales, Quantity and Profit are integers (currency in its smallest *)
(* unit).  A ratio is kept exact as [num, den].  Every cell of the table   *)
(* is filled and the table has at least one row.                           *)
(***************************************************************************)
EXTENDS Integers, Sequences, FiniteSets, TLC

\* ------------------------------------------------------------------ bounds
MaxRows == 2          \* rows of a table of the filter family
MaxDay == 2           \* Order Date ranges over 1..MaxDay
MaxAggRows == 2       \* rows of a table of the aggregation family
MaxAmount == 1        \* Sales of that family range over -1..MaxAmount
MaxRankRows == 18     \* rows of a table of the ranking family
MaxMult == 2          \* multipliers spreading the Profit of that family

\* head(10) of the two rankings
TopN == 10

ALL == "All"
Unset == "(unset)"
NoClick == "(none)"
NotRendered == "(not rendered)"

\* kpi_data keys, in the order the buttons are laid out
KPIS == <<"Sales", "Quantity", "Profit", "Margin Rate">>
KpiNames == {KPIS[i] : i \in DOMAIN KPIS}

VARIABLES
    df_original,                                   \* load_data()
    selected_regions, selected_states,             \* multiselect values
    selected_category, selected_subcat,            \* selectbox values
    start_date, end_date,                          \* date_input values
    all_regions, all_states, all_categories, all_subcats,   \* options offered
    min_date, max_date,                            \* date bounds offered
    df_filtered, df,                               \* subsets
    date_error,                                    \* st.sidebar.error shown
    total_sales, total_quantity, total_profit, margin_rate,
    selected_kpi,                                  \* st.session_state.selected_kpi
    last_click,                                    \* history: the most recent button clicked
    label,                                         \* "Selected KPI: ..."
    no_data_warning,                               \* st.warning shown
    daily_grouped, city_grouped, top_10_city, product_grouped, top_10_product,
    city_sort_by, product_sort_by, line_y           \* by= of the sorts, y= of the line chart

vars == <<df_original, selected_regions, selected_states, selected_category,
          selected_subcat, start_date, end_date, all_regions, all_states,
          all_categories, all_subcats, min_date, max_date, df_filtered, df,
          date_error, total_sales, total_quantity, total_profit, margin_rate,
          selected_kpi, last_click, label, no_data_warning,
          daily_grouped, city_grouped, top_10_city, product_grouped,
          top_10_product, city_sort_by, product_sort_by, line_y>>

\* ------------------------------------------------------------ data frames
Row(date, region, state, city, category, subcat, product, sales, quantity, profit) ==
    ("Order Date" :> date) @@ ("Region" :> region) @@ ("State" :> state) @@
    ("City" :> city) @@ ("Category" :> category) @@ ("Sub-Category" :> subcat) @@
    ("Product Name" :> product) @@ ("Sales" :> sales) @@
    ("Quantity" :> quantity) @@ ("Profit" :> profit)

Range(s) == {s[i] : i \in DOMAIN s}

\* frame[col].unique()
Unique(frame, col) == {frame[i][col] : i \in DOMAIN frame}

\* ["All"] + sorted(frame[col].dropna().unique()), as the set of options
Options(frame, col) == {ALL} \cup Unique(frame, col)

\* frame[col].sum()
RECURSIVE Sum(_, _)
Sum(frame, col) ==
    IF frame = <<>> THEN 0 ELSE frame[1][col] + Sum(Tail(frame), col)

\* frame[col].min(), frame[col].max() of a non-empty frame
ColMin(frame, col) == CHOOSE v \in Unique(frame, col) : \A w \in Unique(frame, col) : v <= w
ColMax(frame, col) == CHOOSE v \in Unique(frame, col) : \A w \in Unique(frame, col) : v >= w

RECURSIVE Ascending(_)
Ascending(S) ==
    IF S = {} THEN <<>>
    ELSE LET m == CHOOSE x \in S : \A y \in S : x <= y
         IN <<m>> \o Ascending(S \ {m})

Min2(a, b) == IF a <= b THEN a ELSE b


\* ------------------------------------------------------------- exact ratios
Ratio(n, d) == [num |-> n, den |-> d]

\* a >= b for ratios with non-zero denominators of either sign
Positive(a) == IF a.den < 0 THEN Ratio(-a.num, -a.den) ELSE a
Geq(a, b) ==
    LET x == Positive(a)
        y == Positive(b)
    IN x.num * y.den >= y.num * x.den
Same(a, b) == Geq(a, b) /\ Geq(b, a)

\* --------------------------------------------------------------- the widgets
(* A widget without a key is identified by its arguments.  While the       *)
(* arguments of a run equal those of the run before, the widget keeps the  *)
(* value the user gave it; when they differ it is a new widget showing its *)
(* default.                                                                *)
WidgetValue(stored, default, same_widget) ==
    IF same_widget THEN stored ELSE default

\* -------------------------------------------------------- the sidebar filters
\* if selected_regions != ["All"]: df_filtered[df_filtered["Region"].isin(...)]
FilterRegions(frame, selection) ==
    IF selection # {ALL}
    THEN SelectSeq(frame, LAMBDA r : r["Region"] \in selection)
    ELSE frame

FilterStates(frame, selection) ==
    IF selection # {ALL}
    THEN SelectSeq(frame, LAMBDA r : r["State"] \in selection)
    ELSE frame

FilterCategory(frame, category) ==
    IF category # ALL
    THEN SelectSeq(frame, LAMBDA r : r["Category"] = category)
    ELSE frame

FilterSubcat(frame, subcat) ==
    IF subcat # ALL
    THEN SelectSeq(frame, LAMBDA r : r["Sub-Category"] = subcat)
    ELSE frame

\* a variant without the else branch: always the bounds of the whole table
DateBoundsOfOriginal(filtered, original) ==
    <<ColMin(original, "Order Date"), ColMax(original, "Order Date")>>

\* the bounds of the two date inputs
DateBounds(filtered, original) ==
    IF filtered = <<>>
    THEN <<ColMin(original, "Order Date"), ColMax(original, "Order Date")>>
    ELSE <<ColMin(filtered, "Order Date"), ColMax(filtered, "Order Date")>>

\* if start_date > end_date: st.sidebar.error(...)
DateError(start, end) == start > end

\* a variant that puts the two dates in order before filtering
DateFilterSwapping(frame, start, end) ==
    SelectSeq(frame, LAMBDA r : /\ r["Order Date"] >= Min2(start, end)
                                /\ r["Order Date"] <= (IF start >= end THEN start ELSE end))

\* a variant that leaves the end date out
DateFilterExclusive(frame, start, end) ==
    SelectSeq(frame, LAMBDA r : r["Order Date"] >= start /\ r["Order Date"] < end)

\* df_filtered[(Order Date >= start) & (Order Date <= end)]
DateFilter(frame, start, end) ==
    SelectSeq(frame, LAMBDA r : r["Order Date"] >= start /\ r["Order Date"] <= end)

\* ------------------------------------------------------------------ the KPIs
KpiTotals(frame) ==
    IF frame = <<>>
    THEN [total_sales |-> 0, total_quantity |-> 0, total_profit |-> 0,
          margin_rate |-> Ratio(0, 1)]
    ELSE LET sales == Sum(frame, "Sales")
             profit == Sum(frame, "Profit")
         IN [total_sales |-> sales,
             total_quantity |-> Sum(frame, "Quantity"),
             total_profit |-> profit,
             margin_rate |-> IF sales # 0 THEN Ratio(profit, sales) ELSE Ratio(0, 1)]

\* ------------------------------------------------------------ session state
\* a variant without the "not in" guard
DefaultKpiEveryRun(session_kpi) == "Sales"

\* if "selected_kpi" not in st.session_state: st.session_state.selected_kpi = "Sales"
DefaultKpi(session_kpi) ==
    IF session_kpi = Unset THEN "Sales" ELSE session_kpi

\* the loop over the four buttons: the one clicked returns True in this run
ButtonLoop(session_kpi, click) ==
    IF click \in KpiNames THEN click ELSE session_kpi

\* a variant that reads the session state before the loop, as is_selected does
DisplayedKpiBeforeLoop(before_buttons, after_buttons) == before_buttons

\* st.write(f"### Selected KPI: {st.session_state.selected_kpi}"), after the loop
DisplayedKpi(before_buttons, after_buttons) == after_buttons

\* by=, y= and x= of the sorts and charts read the session state after the loop
ChartKpi(before_buttons, after_buttons) == after_buttons

\* ------------------------------------------------------------- the aggregates
\* a variant aggregating with "first" instead of "sum"
GroupByFirst(frame, dim) ==
    LET keys == Ascending(Unique(frame, dim))
    IN [k \in 1..Len(keys) |->
          LET group == SelectSeq(frame, LAMBDA r : r[dim] = keys[k])
          IN (dim :> keys[k]) @@ ("Sales" :> group[1]["Sales"]) @@
             ("Quantity" :> group[1]["Quantity"]) @@
             ("Profit" :> group[1]["Profit"])]

\* frame.groupby(dim).agg({"Sales": "sum", "Quantity": "sum", "Profit": "sum"}).reset_index()
GroupBy(frame, dim) ==
    LET keys == Ascending(Unique(frame, dim))
    IN [k \in 1..Len(keys) |->
          LET group == SelectSeq(frame, LAMBDA r : r[dim] = keys[k])
          IN (dim :> keys[k]) @@ ("Sales" :> Sum(group, "Sales")) @@
             ("Quantity" :> Sum(group, "Quantity")) @@
             ("Profit" :> Sum(group, "Profit"))]

\* a variant with the zero guard of the KPI tile: 0 when Sales is 0
WithMarginRateZero(grouped) ==
    [i \in DOMAIN grouped |->
        ("Margin Rate" :> IF grouped[i]["Sales"] = 0 THEN Ratio(0, 1)
                          ELSE Ratio(grouped[i]["Profit"], grouped[i]["Sales"]))
        @@ grouped[i]]

\* grouped["Margin Rate"] = grouped["Profit"] / grouped["Sales"].replace(0, 1)
WithMarginRate(grouped) ==
    [i \in DOMAIN grouped |->
        ("Margin Rate" :> Ratio(grouped[i]["Profit"],
                                IF grouped[i]["Sales"] = 0 THEN 1 ELSE grouped[i]["Sales"]))
        @@ grouped[i]]

\* the value of a KPI column in a row of an aggregate, as a ratio
KpiValue(row, kpi) ==
    IF kpi = "Margin Rate" THEN row[kpi] ELSE Ratio(row[kpi], 1)

\* grouped.head(10)
Top10(grouped) == SubSeq(grouped, 1, Min2(TopN, Len(grouped)))

(* grouped.sort_values(by=kpi, ascending=False, inplace=True).  The default *)
(* kind is quicksort, which is not a stable sort: rows with equal keys come *)
(* out in an order that depends on the numpy build and on the table.  Every *)
(* descending arrangement of the rows is an outcome.                        *)
RECURSIVE Arrangements(_, _, _)
Arrangements(grouped, idx, kpi) ==
    IF idx = {} THEN {<<>>}
    ELSE LET top == {i \in idx : \A j \in idx :
                        Geq(KpiValue(grouped[i], kpi), KpiValue(grouped[j], kpi))}
         IN UNION {{<<grouped[i]>> \o rest : rest \in Arrangements(grouped, idx \ {i}, kpi)}
                   : i \in top}

\* a variant without ascending=False
Reverse(s) == [i \in DOMAIN s |-> s[Len(s) + 1 - i]]
SortValuesAscending(grouped, kpi) ==
    {Reverse(s) : s \in Arrangements(grouped, DOMAIN grouped, kpi)}

\* a variant that keeps only the head of the sorted table in place
SortValuesTruncating(grouped, kpi) ==
    {Top10(s) : s \in Arrangements(grouped, DOMAIN grouped, kpi)}

SortValues(grouped, kpi) == Arrangements(grouped, DOMAIN grouped, kpi)

\* ------------------------------------------------------------ one run of app.py
(* Everything a run computes before the two sorts, from the table, the     *)
(* widget values w the browser holds, the options prev of the run before   *)
(* (fresh: there was none), the session state and the button clicked.      *)
Script(table, fresh, w, prev, session_kpi, click) ==
    LET regions == WidgetValue(w.regions, {ALL}, ~fresh)
        f1 == FilterRegions(table, regions)
        opt_states == Options(f1, "State")
        states == WidgetValue(w.states, {ALL}, ~fresh /\ opt_states = prev.all_states)
        f2 == FilterStates(f1, states)
        opt_categories == Options(f2, "Category")
        category == WidgetValue(w.category, ALL,
                                ~fresh /\ opt_categories = prev.all_categories)
        f3 == FilterCategory(f2, category)
        opt_subcats == Options(f3, "Sub-Category")
        subcat == WidgetValue(w.subcat, ALL, ~fresh /\ opt_subcats = prev.all_subcats)
        f4 == FilterSubcat(f3, subcat)
        bounds == DateBounds(f4, table)
        same_dates == ~fresh /\ bounds = <<prev.min_date, prev.max_date>>
        start == WidgetValue(w.start, bounds[1], same_dates)
        end == WidgetValue(w.end, bounds[2], same_dates)
        subset == DateFilter(f4, start, end)
        kpis == KpiTotals(subset)
        before == DefaultKpi(session_kpi)
        kpi == ButtonLoop(before, click)
        charts == subset # <<>>
    IN [selected_regions |-> regions, selected_states |-> states,
        selected_category |-> category, selected_subcat |-> subcat,
        start_date |-> start, end_date |-> end,
        all_regions |-> Options(table, "Region"), all_states |-> opt_states,
        all_categories |-> opt_categories, all_subcats |-> opt_subcats,
        min_date |-> bounds[1], max_date |-> bounds[2],
        df_filtered |-> f4, df |-> subset,
        date_error |-> DateError(start, end),
        total_sales |-> kpis.total_sales, total_quantity |-> kpis.total_quantity,
        total_profit |-> kpis.total_profit, margin_rate |-> kpis.margin_rate,
        selected_kpi |-> kpi, label |-> DisplayedKpi(before, kpi),
        no_data_warning |-> ~charts,
        daily_grouped |-> IF charts THEN WithMarginRate(GroupBy(subset, "Order Date")) ELSE <<>>,
        city_grouped |-> IF charts THEN WithMarginRate(GroupBy(subset, "City")) ELSE <<>>,
        product_grouped |-> IF charts THEN WithMarginRate(GroupBy(subset, "Product Name")) ELSE <<>>,
        sort_by |-> IF charts THEN ChartKpi(before, kpi) ELSE NotRendered]

\* the widget values the browser holds, and the options of the last run
Widgets ==
    [regions |-> selected_regions, states |-> selected_states,
     category |-> selected_category, subcat |-> selected_subcat,
     start |-> start_date, end |-> end_date]
Offered ==
    [all_states |-> all_states, all_categories |-> all_categories,
     all_subcats |-> all_subcats, min_date |-> min_date, max_date |-> max_date]

\* the state a run leaves, with the outcomes of its two sorts
Rendered(out, cities, products, click) ==
    /\ selected_regions' = out.selected_regions
    /\ selected_states' = out.selected_states
    /\ selected_category' = out.selected_category
    /\ selected_subcat' = out.selected_subcat
    /\ start_date' = out.start_date
    /\ end_date' = out.end_date
    /\ all_regions' = out.all_regions
    /\ all_states' = out.all_states
    /\ all_categories' = out.all_categories
    /\ all_subcats' = out.all_subcats
    /\ min_date' = out.min_date
    /\ max_date' = out.max_date
    /\ df_filtered' = out.df_filtered
    /\ df' = out.df
    /\ date_error' = out.date_error
    /\ total_sales' = out.total_sales
    /\ total_quantity' = out.total_quantity
    /\ total_profit' = out.total_profit
    /\ margin_rate' = out.margin_rate
    /\ selected_kpi' = out.selected_kpi
    /\ last_click' = IF click = NoClick THEN last_click ELSE click
    /\ label' = out.label
    /\ no_data_warning' = out.no_data_warning
    /\ daily_grouped' = out.daily_grouped
    /\ city_grouped' = cities
    /\ top_10_city' = Top10(cities)
    /\ product_grouped' = products
    /\ top_10_product' = Top10(products)
    /\ city_sort_by' = out.sort_by
    /\ product_sort_by' = out.sort_by
    /\ line_y' = out.sort_by
    /\ UNCHANGED df_original

Rerun(w, click) ==
    \E out \in {Script(df_original, FALSE, w, Offered, selected_kpi, click)} :
       \E cities \in SortValues(out.city_grouped, out.sort_by) :
       \E products \in SortValues(out.product_grouped, out.sort_by) :
          Rendered(out, cities, products, click)

\* ----------------------------------------------------------- the interactions
ChangeRegions ==
    \E selection \in SUBSET all_regions :
        /\ selection # selected_regions
        /\ Rerun([Widgets EXCEPT !.regions = selection], NoClick)

ChangeStates ==
    \E selection \in SUBSET all_states :
        /\ selection # selected_states
        /\ Rerun([Widgets EXCEPT !.states = selection], NoClick)

ChangeCategory ==
    \E category \in all_categories :
        /\ category # selected_category
        /\ Rerun([Widgets EXCEPT !.category = category], NoClick)

ChangeSubcat ==
    \E subcat \in all_subcats :
        /\ subcat # selected_subcat
        /\ Rerun([Widgets EXCEPT !.subcat = subcat], NoClick)

ChangeStartDate ==
    \E day \in min_date..max_date :
        /\ day # start_date
        /\ Rerun([Widgets EXCEPT !.start = day], NoClick)

ChangeEndDate ==
    \E day \in min_date..max_date :
        /\ day # end_date
        /\ Rerun([Widgets EXCEPT !.end = day], NoClick)

ClickKpi ==
    \E kpi \in KpiNames : Rerun(Widgets, kpi)

Next ==
    \/ ChangeRegions
    \/ ChangeStates
    \/ ChangeCategory
    \/ ChangeSubcat
    \/ ChangeStartDate
    \/ ChangeEndDate
    \/ ClickKpi

\* ------------------------------------------------------------- the first run
NoWidgets ==
    [regions |-> {ALL}, states |-> {ALL}, category |-> ALL, subcat |-> ALL,
     start |-> 0, end |-> 0]
NothingOffered ==
    [all_states |-> {}, all_categories |-> {}, all_subcats |-> {},
     min_date |-> 0, max_date |-> 0]

FirstRun(table) ==
    \E out \in {Script(table, TRUE, NoWidgets, NothingOffered, Unset, NoClick)} :
       \E cities \in SortValues(out.city_grouped, out.sort_by) :
       \E products \in SortValues(out.product_grouped, out.sort_by) :
          /\ df_original = table
          /\ selected_regions = out.selected_regions
          /\ selected_states = out.selected_states
          /\ selected_category = out.selected_category
          /\ selected_subcat = out.selected_subcat
          /\ start_date = out.start_date
          /\ end_date = out.end_date
          /\ all_regions = out.all_regions
          /\ all_states = out.all_states
          /\ all_categories = out.all_categories
          /\ all_subcats = out.all_subcats
          /\ min_date = out.min_date
          /\ max_date = out.max_date
          /\ df_filtered = out.df_filtered
          /\ df = out.df
          /\ date_error = out.date_error
          /\ total_sales = out.total_sales
          /\ total_quantity = out.total_quantity
          /\ total_profit = out.total_profit
          /\ margin_rate = out.margin_rate
          /\ selected_kpi = out.selected_kpi
          /\ last_click = NoClick
          /\ label = out.label
          /\ no_data_warning = out.no_data_warning
          /\ daily_grouped = out.daily_grouped
          /\ city_grouped = cities
          /\ top_10_city = Top10(cities)
          /\ product_grouped = products
          /\ top_10_product = Top10(products)
          /\ city_sort_by = out.sort_by
          /\ product_sort_by = out.sort_by
          /\ line_y = out.sort_by

\* ------------------------------------------------------------ the tables loaded
(* Three families of workbooks.  The order of the rows of a workbook       *)
(* matters to nothing the script computes, so the rows of a table are      *)
(* taken in one fixed order (increasing index in the family).          *)
Places == <<<<"East", "New York", 1>>, <<"East", "Ohio", 2>>, <<"West", "Texas", 3>>>>
Items == <<<<"Furniture", "Chairs", 1>>, <<"Furniture", "Tables", 2>>,
           <<"Technology", "Phones", 3>>>>

Increasing(n, k) ==
    {s \in [1..k -> 1..n] : \A i \in 1..(k - 1) : s[i] < s[i + 1]}

\* every table of 1..rows rows drawn from the sequence family
Tables(family, rows) ==
    UNION {{[i \in 1..k |-> family[s[i]]] : s \in Increasing(Len(family), k)}
           : k \in 1..rows}

RECURSIVE SeqOf(_)
SeqOf(S) == IF S = {} THEN <<>>
            ELSE LET x == CHOOSE y \in S : TRUE IN <<x>> \o SeqOf(S \ {x})

(* The filter family: each of three places (two states of one region, one *)
(* of another) orders two of three products (two sub-categories of one     *)
(* category, one of another), on a day and with measures that follow from  *)
(* the keys.                                                               *)
FilterRow(p, i) ==
    Row(1 + ((p + i) % MaxDay), Places[p][1], Places[p][2], Places[p][3],
        Items[i][1], Items[i][2], Items[i][3], p + i, i, i - p)
FilterRows ==
    SeqOf({FilterRow(o[1], o[2]) :
            o \in {x \in (DOMAIN Places) \X (DOMAIN Items) : x[1] # x[2]}})

(* The aggregation family: one region, state, category and sub-category;   *)
(* three combinations of day, city and product that split the rows         *)
(* differently in each dimension; Sales and Profit of either sign and 0.   *)
AggKeys == <<<<1, 1, 1>>, <<1, 2, 2>>, <<2, 1, 2>>>>
AggRows ==
    SeqOf({Row(AggKeys[k][1], "East", "Ohio", AggKeys[k][2], "Furniture", "Chairs",
               AggKeys[k][3], sales, sales + 2, profit) :
            k \in DOMAIN AggKeys, sales \in (-1)..MaxAmount, profit \in (-1)..1})

(* The ranking family: MaxRankRows orders, one per city and per product,   *)
(* on alternating days, so that a ranking has more than ten groups (and    *)
(* more rows than the 16 below which numpy's quicksort is an insertion     *)
(* sort) and a date range brings it below ten.  Sales rise with the city,  *)
(* with one tie after city t; Quantity and Profit are spread without ties, *)
(* Profit by the multiplier a.                                             *)
RankTable(t, a) ==
    [i \in 1..MaxRankRows |->
        Row(1 + (i % 2), "East", "Ohio", i, "Furniture", "Chairs", MaxRankRows + 1 - i,
            IF i > t THEN i - 1 ELSE i,
            1 + ((7 * i) % 23),
            ((a * i) % 23) - 9)]
RankTables == {RankTable(t, a) : t \in 1..MaxRankRows, a \in 1..MaxMult}

Init == \E table \in Tables(FilterRows, MaxRows) : FirstRun(table)
InitAgg == \E table \in Tables(AggRows, MaxAggRows) : FirstRun(table)
InitRank == \E table \in RankTables : FirstRun(table)

\* the date range and the KPI buttons only: the four selections stay at "All"
NextDates ==
    \/ ChangeStartDate
    \/ ChangeEndDate
    \/ ClickKpi

Spec == Init /\ [][Next]_vars
SpecAgg == InitAgg /\ [][NextDates]_vars
SpecRank == InitRank /\ [][NextDates]_vars

\* ================================================================== claims
Aggregates == <<<<daily_grouped, "Order Date">>, <<city_grouped, "City">>,
                <<product_grouped, "Product Name">>>>

(* C1: on a non-empty working subset, in each of the three groupings the   *)
(* Sales, Quantity and Profit of the groups add up to the KPI totals, and  *)
(* every row of the subset belongs to exactly one group.                   *)
C1_GroupSumsEqualTotals ==
    df # <<>> =>
        \A a \in Range(Aggregates) :
            /\ Sum(a[1], "Sales") = total_sales
            /\ Sum(a[1], "Quantity") = total_quantity
            /\ Sum(a[1], "Profit") = total_profit
            /\ \A r \in Range(df) :
                  Cardinality({i \in DOMAIN a[1] : a[1][i][a[2]] = r[a[2]]}) = 1
            /\ \A i \in DOMAIN a[1] : a[1][i][a[2]] \in Unique(df, a[2])

\* two rows in one date group, two city groups, totals that are not zero
C1_Witness ==
    /\ Len(df) >= 2
    /\ Len(daily_grouped) = 1
    /\ Len(city_grouped) = 2
    /\ Len(product_grouped) = 2
    /\ total_sales # 0
    /\ total_profit # 0

(* C2: on a non-empty working subset each top-10 table has min(10, number  *)
(* of groups) rows, all of them groups of the subset, in non-increasing    *)
(* order of the selected KPI, and no group left out has a larger value     *)
(* than a row of the table.                                                *)
RankedRight(top, dim) ==
    LET groups == Range(WithMarginRate(GroupBy(df, dim)))
    IN /\ Len(top) = Min2(TopN, Cardinality(Unique(df, dim)))
       /\ Range(top) \subseteq groups
       /\ Cardinality(Range(top)) = Len(top)
       /\ \A i, j \in DOMAIN top :
             i < j => Geq(KpiValue(top[i], selected_kpi), KpiValue(top[j], selected_kpi))
       /\ \A g \in groups \ Range(top) : \A i \in DOMAIN top :
             Geq(KpiValue(top[i], selected_kpi), KpiValue(g, selected_kpi))

C2_TopTenRanked ==
    df # <<>> => /\ RankedRight(top_10_city, "City")
                 /\ RankedRight(top_10_product, "Product Name")

\* more than ten cities and products, ranked by Margin Rate, one of each left out
C2_Witness ==
    /\ selected_kpi = "Margin Rate"
    /\ Len(city_grouped) > TopN
    /\ Len(top_10_city) = TopN
    /\ Len(product_grouped) > TopN
    /\ Len(top_10_product) = TopN

(* C3: the ranking sort is stable: two groups with equal values of the     *)
(* selected KPI stand in the sorted table in the order of the grouped      *)
(* table, which is the ascending order of their keys.                      *)
StableOrder(sorted, dim) ==
    \A i, j \in DOMAIN sorted :
        (i < j /\ Same(KpiValue(sorted[i], selected_kpi), KpiValue(sorted[j], selected_kpi)))
            => sorted[i][dim] < sorted[j][dim]

C3_SortIsStable ==
    /\ StableOrder(city_grouped, "City")
    /\ StableOrder(product_grouped, "Product Name")

(* C4: Margin Rate is always a number.  The KPI is total Profit over total *)
(* Sales, and 0 when total Sales is 0; on the empty subset all four KPIs   *)
(* are 0.  In every row of the three aggregates it is Profit over Sales,   *)
(* and the Profit itself when Sales is 0.                                  *)
C4_MarginRateDefined ==
    /\ margin_rate.den # 0
    /\ total_sales # 0 => Same(margin_rate, Ratio(total_profit, total_sales))
    /\ total_sales = 0 => margin_rate.num = 0
    /\ df = <<>> => total_sales = 0 /\ total_quantity = 0 /\ total_profit = 0
    /\ \A a \in Range(Aggregates) : \A i \in DOMAIN a[1] :
          LET row == a[1][i]
          IN /\ row["Margin Rate"].den # 0
             /\ row["Sales"] # 0 =>
                    Same(row["Margin Rate"], Ratio(row["Profit"], row["Sales"]))
             /\ row["Sales"] = 0 => Same(row["Margin Rate"], Ratio(row["Profit"], 1))

\* total Sales 0 with a Profit; a date group with Sales 0 and a Profit; a city with Sales
C4_Witness ==
    /\ df # <<>>
    /\ total_sales = 0
    /\ total_profit # 0
    /\ \E i \in DOMAIN daily_grouped :
          daily_grouped[i]["Sales"] = 0 /\ daily_grouped[i]["Profit"] # 0
    /\ \E i \in DOMAIN city_grouped : city_grouped[i]["Sales"] # 0

(* C5: with the start date after the end date the working subset is empty, *)
(* the four KPIs are 0, the date error is shown, no aggregate or ranking   *)
(* is computed and the "no data" warning is shown; the two dates stay as   *)
(* chosen.                                                                 *)
C5_InvalidDateRange ==
    start_date > end_date =>
        /\ df = <<>>
        /\ total_sales = 0 /\ total_quantity = 0 /\ total_profit = 0
        /\ margin_rate.num = 0 /\ margin_rate.den # 0
        /\ date_error
        /\ no_data_warning
        /\ daily_grouped = <<>> /\ city_grouped = <<>> /\ product_grouped = <<>>
        /\ top_10_city = <<>> /\ top_10_product = <<>>
        /\ line_y = NotRendered /\ city_sort_by = NotRendered
        /\ product_sort_by = NotRendered

\* the dates are out of order and rows lie between them: swapped, they would pass
C5_Witness ==
    /\ start_date > end_date
    /\ selected_states # {ALL}
    /\ \E r \in Range(df_filtered) :
          r["Order Date"] >= end_date /\ r["Order Date"] <= start_date

(* C6: the date bounds offered are days of the table: those of the whole   *)
(* table when nothing is left after the four selections, and otherwise     *)
(* those of what is left.                                                  *)
C6_DateBoundsDefined ==
    /\ min_date \in Unique(df_original, "Order Date")
    /\ max_date \in Unique(df_original, "Order Date")
    /\ df_filtered = <<>> =>
          /\ min_date = ColMin(df_original, "Order Date")
          /\ max_date = ColMax(df_original, "Order Date")
    /\ df_filtered # <<>> =>
          /\ min_date = ColMin(df_filtered, "Order Date")
          /\ max_date = ColMax(df_filtered, "Order Date")

\* nothing left after the selections, of a table that spans more than one day
C6_Witness ==
    /\ df_filtered = <<>>
    /\ min_date < max_date

(* C7: a step that changes the selected KPI and none of the six filter     *)
(* values changes neither the working subset, nor the four KPIs, nor the   *)
(* rows of any of the three aggregates.                                    *)
C7_KpiChangeKeepsAggregates ==
    [][(selected_kpi' # selected_kpi /\ Widgets' = Widgets) =>
          /\ df' = df
          /\ df_filtered' = df_filtered
          /\ total_sales' = total_sales
          /\ total_quantity' = total_quantity
          /\ total_profit' = total_profit
          /\ margin_rate' = margin_rate
          /\ daily_grouped' = daily_grouped
          /\ Range(city_grouped') = Range(city_grouped)
          /\ Range(product_grouped') = Range(product_grouped)]_vars

\* ranked by Profit after a click, more than ten cities, the head not the whole table
C7_Witness ==
    /\ last_click = "Profit"
    /\ selected_kpi = "Profit"
    /\ Len(city_grouped) > TopN
    /\ Range(top_10_city) # Range(city_grouped)
    /\ top_10_city[1]["City"] # city_grouped[Len(city_grouped)]["City"]

(* C8: the selected KPI is one of the four; it is Sales until a button is  *)
(* clicked and from then on the KPI of the button clicked last, whatever   *)
(* filter and date changes follow.                                         *)
C8_SelectedKpiIsLastClick ==
    /\ selected_kpi \in KpiNames
    /\ selected_kpi = (IF last_click = NoClick THEN "Sales" ELSE last_click)

\* a button other than Sales was clicked and the selections are not the defaults
C8_Witness ==
    /\ last_click = "Margin Rate"
    /\ selected_regions # {ALL}
    /\ selected_category # ALL
    /\ start_date > end_date

(* C9: in every run the label, the sort key of both rankings and the       *)
(* column of the time series are the same KPI, and once a button has been  *)
(* clicked that KPI is the one clicked last: the run that handles a click  *)
(* already shows it.                                                       *)
C9_ClickShowsInSameRun ==
    /\ label \in KpiNames
    /\ last_click # NoClick => label = last_click
    /\ df # <<>> => /\ city_sort_by = label
                    /\ product_sort_by = label
                    /\ line_y = label

\* charts drawn for a clicked KPI other than the default
C9_Witness ==
    /\ last_click = "Quantity"
    /\ label = "Quantity"
    /\ line_y = "Quantity"
    /\ Len(city_grouped) >= 2

(* C10: the working subset is the rows of the table, in their order, that  *)
(* pass all five filters at once, and no step changes the table.           *)
Passes(r) ==
    /\ selected_regions = {ALL} \/ r["Region"] \in selected_regions
    /\ selected_states = {ALL} \/ r["State"] \in selected_states
    /\ selected_category = ALL \/ r["Category"] = selected_category
    /\ selected_subcat = ALL \/ r["Sub-Category"] = selected_subcat
    /\ start_date <= r["Order Date"]
    /\ r["Order Date"] <= end_date

C10_SubsetIsConjunction ==
    /\ [](df = SelectSeq(df_original, Passes))
    /\ [][df_original' = df_original]_vars

\* all five filters set, and one of two rows passes: the other fails on the date alone
C10_Witness ==
    /\ selected_regions # {ALL}
    /\ selected_states # {ALL}
    /\ selected_category # ALL
    /\ selected_subcat # ALL
    /\ Len(df_filtered) = 2
    /\ Len(df) = 1
    /\ start_date = end_date

=============================================================================
